---------------------------- MODULE Spec2Model ----------------------------
(***************************************************************************)
(* A model of authlite (src/authlite.go): the in-memory user and session   *)
(* key stores, their dirty flags, the two CSV backing files and the three  *)
(* mutexes, driven by concurrent callers of the package's exported         *)
(* functions.                                                              *)
(*                                                                         *)
(* Granularity.  Every exported function is cut at the points where it     *)
(* acquires a lock or samples the clock.  A section that runs under one    *)
(* lock and acquires no other lock inside it is one atomic step, guarded   *)
(* by that lock being free (the step stands for Lock ... Unlock).  The     *)
(* two functions that take a second lock while holding a first             *)
(* (FlushUsers, FlushKeys) keep their locks across steps, so umu, kmu and  *)
(* file_mu record the holder of such a section.  A time.Now() that is      *)
(* taken outside any lock is a step of its own.                            *)
(*                                                                         *)
(* Time is counted in ticks of 1/TicksPerSec second, so that an expiry     *)
(* need not be a whole number of seconds.                                  *)
(***************************************************************************)
EXTENDS Integers, Sequences, FiniteSets, TLC

\* ------------------------------------------------------------------ bounds
MaxTime == 3                  \* the clock stops advancing at this tick
MaxCalls == 3                 \* the callers make at most this many calls in all
TicksPerSec == 2              \* clock resolution of the model
LifetimeSecs == 1             \* KEY_LIFETIME, in seconds

Procs == {"p1", "p2"}         \* concurrent callers
Names == {"alice", "bob"}     \* user names callers pass
Passwords == {"secret1", "secret2"}
Tokens == {"k1", "k2"}        \* the strings generate_key() can return

NoProc == "none"

\* key_lifetime = key_life_cfg_int * time.Second
key_lifetime == LifetimeSecs * TicksPerSec

\* --------------------------------------------------------------- errors
ErrUserExists == "ErrUserExists"
ErrNotAUser == "ErrNotAUser"
ErrBadPassword == "ErrBadPassword"
ErrBadKey == "ErrBadKey"
ErrFormat == "unreadable format"      \* the fmt.Errorf of a short record
ErrIO == "io error"                   \* the fmt.Errorf of a failed open/read/write/close
NoErr == "nil"

VARIABLES
    now,          \* what time.Now() returns, in ticks
    users,        \* map[string][]byte: user name -> password hash
    udirty,
    keys,         \* map[string]key: key string -> [uname, until]
    kdirty,
    hash_file,    \* the records of the user file (a sequence of field sequences)
    key_file,     \* the records of the key file
    file_mu,      \* holder of file_mu across steps, or NoProc
    umu,          \* holder of umu.Lock() across steps, or NoProc
    kmu,          \* holder of kmu.Lock() across steps, or NoProc
    pc,           \* pc[p]: where caller p stands
    loc,          \* loc[p]: arguments, locals and return values of p's call
    acct,         \* history: acct[n] is the password of a successful AddUser(n, _),
                  \* "deleted" after a successful DeleteUser(n), and "none" at
                  \* the start and once LoadUsers has replaced the map
    stamp,        \* history: stamp[t] is the time of the last issue or refresh
                  \* that wrote keys[t]
    calls         \* the number of calls made (and file edits done) so far

vars == <<now, users, udirty, keys, kdirty, hash_file, key_file,
          file_mu, umu, kmu, pc, loc, acct, stamp, calls>>

ustore == <<users, udirty>>
kstore == <<keys, kdirty>>
files == <<hash_file, key_file>>
locks == <<file_mu, umu, kmu>>
hist == <<acct, stamp>>

\* ----------------------------------------------------------------- maps
EmptyMap == [x \in {} |-> x]
MapPut(m, x, v) == [y \in DOMAIN m \cup {x} |-> IF y = x THEN v ELSE m[y]]
MapDel(m, S) == [y \in DOMAIN m \ S |-> m[y]]

\* k, exists := keys[keystr]: a miss yields the zero key{} and exists = false
ZeroKey == [uname |-> "", until |-> -1]
MapGetKey(m, keystr) ==
    IF keystr \in DOMAIN m
    THEN [exists |-> TRUE, uname |-> m[keystr].uname, until |-> m[keystr].until]
    ELSE [exists |-> FALSE, uname |-> ZeroKey.uname, until |-> ZeroKey.until]

\* ------------------------------------------------------ hashing (bcrypt)
\* bcrypt.GenerateFromPassword / CompareHashAndPassword: an opaque digest per
\* password that only that password matches.
Hash(pwd) == IF pwd = "secret1" THEN "digest1" ELSE "digest2"
CompareHashAndPassword(hsh, pwd) == hsh = Hash(pwd)

\* --------------------------------------------------------- time.Time
\* a Unix() that rounds up to the next whole second
Unix_RoundUp(t) == (t + TicksPerSec - 1) \div TicksPerSec

\* v.until.Unix(): whole seconds since the epoch
Unix(t) == t \div TicksPerSec
\* time.Unix(sec, 0)
TimeUnix(sec) == sec * TicksPerSec

\* ------------------------------------------------------------- locals
Blank == [op |-> "", uname |-> "", pwd |-> "", keystr |-> "",
          k |-> MapGetKey(EmptyMap, ""), old |-> {}, now |-> 0, recs |-> <<>>,
          ok |-> FALSE, err |-> NoErr, out |-> ""]

\* caller p starts a call
Begin(p) ==
    /\ pc[p] = "idle"
    /\ calls < MaxCalls
    /\ calls' = calls + 1
\* caller p goes on from label
At(p, label) ==
    /\ pc[p] = label
    /\ UNCHANGED calls

Goto(p, label) == pc' = [pc EXCEPT ![p] = label]
SetLoc(p, r) == loc' = [loc EXCEPT ![p] = r]
\* the locals of a call that returns: only its name and results live on
Done(p) == [Blank EXCEPT !.op = loc[p].op]
\* return: the call's results are visible in loc[p] while pc[p] = "ret"
Ret(p, r, ok, err, out) ==
    /\ pc' = [pc EXCEPT ![p] = "ret"]
    /\ loc' = [loc EXCEPT ![p] = [r EXCEPT !.ok = ok, !.err = err, !.out = out]]

\* ------------------------------------------------------- encoding/csv
\* csv.Reader.ReadAll() with the default FieldsPerRecord = 0: every record must
\* have as many fields as the first one, else the read fails (ErrFieldCount).
ReadAllOK(recs) == \A i \in 1..Len(recs) : Len(recs[i]) = Len(recs[1])

\* the orders in which "for k, v := range m" can visit the keys S of a map
RangeOrders(S) ==
    {s \in [1..Cardinality(S) -> S] : \A i, j \in 1..Cardinality(S) : s[i] = s[j] => i = j}

\* ===================================================================
\*                               UserStore
\* ===================================================================

\* UsersDirty(): RLock; b := udirty; RUnlock
UsersDirty(p) ==
    /\ Begin(p)
    /\ umu = NoProc
    /\ Ret(p, [Blank EXCEPT !.op = "UsersDirty"], udirty, NoErr, "")
    /\ UNCHANGED <<now, ustore, kstore, files, locks, hist>>

\* the loop of LoadUsers over recs[i..], filling m; stops at the first short record
RECURSIVE LoadUsersLoop(_, _, _)
LoadUsersLoop(recs, i, m) ==
    IF i > Len(recs) THEN [users |-> m, err |-> NoErr]
    ELSE IF Len(recs[i]) < 2 THEN [users |-> m, err |-> ErrFormat]
    ELSE LoadUsersLoop(recs, i + 1, MapPut(m, recs[i][1], recs[i][2]))

\* LoadUsers(), lines 116-135: file_mu.Lock; Open; ReadAll; Close; file_mu.Unlock
LoadUsersRead(p) ==
    /\ Begin(p)
    /\ file_mu = NoProc
    /\ IF ReadAllOK(hash_file)
       THEN /\ Goto(p, "lu_store")
            /\ SetLoc(p, [Blank EXCEPT !.op = "LoadUsers", !.recs = hash_file])
       ELSE Ret(p, [Blank EXCEPT !.op = "LoadUsers"], FALSE, ErrIO, "")
    /\ UNCHANGED <<now, ustore, kstore, files, locks, hist>>

\* LoadUsers(), lines 137-149: umu.Lock; users = make(...); loop; udirty = false
LoadUsersStore(p) ==
    /\ At(p, "lu_store")
    /\ umu = NoProc
    /\ LET res == LoadUsersLoop(loc[p].recs, 1, EmptyMap) IN
         /\ users' = res.users
         /\ udirty' = IF res.err = NoErr THEN FALSE ELSE udirty
         /\ Ret(p, Done(p), res.err = NoErr, res.err, "")
         /\ acct' = [n \in Names |-> "none"]
    /\ UNCHANGED <<now, kstore, files, locks, stamp>>

\* FlushUsers(), line 163: umu.Lock()
FlushUsersLock(p) ==
    /\ Begin(p)
    /\ umu = NoProc
    /\ umu' = p
    /\ Goto(p, "fu_file")
    /\ SetLoc(p, [Blank EXCEPT !.op = "FlushUsers"])
    /\ UNCHANGED <<now, ustore, kstore, files, file_mu, kmu, hist>>

\* FlushUsers(), line 164: file_mu.Lock()
FlushUsersFileLock(p) ==
    /\ At(p, "fu_file")
    /\ file_mu = NoProc
    /\ file_mu' = p
    /\ Goto(p, "fu_write")
    /\ UNCHANGED <<now, ustore, kstore, files, umu, kmu, loc, hist>>

\* what FlushUsers writes: one record per user, in the order range visits them
UserRecords(m, order) == [i \in 1..Len(order) |-> <<order[i], m[order[i]]>>]

\* FlushUsers(), lines 168-198 with no I/O failure: truncate, write every
\* record, close, udirty = false; the deferred unlocks release both locks
FlushUsersWrite(p) ==
    /\ At(p, "fu_write")
    /\ \E order \in RangeOrders(DOMAIN users) :
         hash_file' = UserRecords(users, order)
    /\ udirty' = FALSE
    /\ umu' = NoProc
    /\ file_mu' = NoProc
    /\ Ret(p, Done(p), TRUE, NoErr, "")
    /\ UNCHANGED <<now, users, kstore, key_file, kmu, hist>>

\* AddUser without the existence test
AddUserResult_NoCheck(m, dirty, uname, pwd) ==
    [users |-> MapPut(m, uname, Hash(pwd)), udirty |-> TRUE, err |-> NoErr]

\* AddUser(uname, pwd), under umu.Lock()
AddUserResult(m, dirty, uname, pwd) ==
    IF uname \in DOMAIN m
    THEN [users |-> m, udirty |-> dirty, err |-> ErrUserExists]
    ELSE [users |-> MapPut(m, uname, Hash(pwd)), udirty |-> TRUE, err |-> NoErr]

AddUser(p, uname, pwd) ==
    /\ Begin(p)
    /\ umu = NoProc
    /\ LET res == AddUserResult(users, udirty, uname, pwd) IN
         /\ users' = res.users
         /\ udirty' = res.udirty
         /\ Ret(p, [Blank EXCEPT !.op = "AddUser", !.uname = uname, !.pwd = pwd],
                res.err = NoErr, res.err, "")
         /\ acct' = IF res.err = NoErr THEN [acct EXCEPT ![uname] = pwd] ELSE acct
    /\ UNCHANGED <<now, kstore, files, locks, stamp>>

\* DeleteUser that reports success and deletes nothing
DeleteUserResult_NoDelete(m, dirty, uname) ==
    IF uname \in DOMAIN m
    THEN [users |-> m, udirty |-> TRUE, err |-> NoErr]
    ELSE [users |-> m, udirty |-> dirty, err |-> ErrNotAUser]

\* DeleteUser(uname), under umu.Lock()
DeleteUserResult(m, dirty, uname) ==
    IF uname \in DOMAIN m
    THEN [users |-> MapDel(m, {uname}), udirty |-> TRUE, err |-> NoErr]
    ELSE [users |-> m, udirty |-> dirty, err |-> ErrNotAUser]

\* a DeleteUser that also drops the keys of the deleted user
DeleteUser_Revoke(p, uname) ==
    /\ Begin(p)
    /\ umu = NoProc
    /\ LET res == DeleteUserResult(users, udirty, uname) IN
         /\ users' = res.users
         /\ udirty' = res.udirty
         /\ keys' = IF res.err = NoErr
                    THEN MapDel(keys, {t \in DOMAIN keys : keys[t].uname = uname})
                    ELSE keys
         /\ Ret(p, [Blank EXCEPT !.op = "DeleteUser", !.uname = uname],
                res.err = NoErr, res.err, "")
         /\ acct' = IF res.err = NoErr THEN [acct EXCEPT ![uname] = "deleted"] ELSE acct
    /\ UNCHANGED <<now, kdirty, files, locks, stamp>>

DeleteUser(p, uname) ==
    /\ Begin(p)
    /\ umu = NoProc
    /\ LET res == DeleteUserResult(users, udirty, uname) IN
         /\ users' = res.users
         /\ udirty' = res.udirty
         /\ Ret(p, [Blank EXCEPT !.op = "DeleteUser", !.uname = uname],
                res.err = NoErr, res.err, "")
         /\ acct' = IF res.err = NoErr THEN [acct EXCEPT ![uname] = "deleted"] ELSE acct
    /\ UNCHANGED <<now, kstore, files, locks, stamp>>

\* a CheckPassword that accepts a name that is not in the map
CheckPasswordResult_AnyName(m, uname, pwd) ==
    IF uname \notin DOMAIN m THEN [ok |-> TRUE, err |-> NoErr]
    ELSE IF CompareHashAndPassword(m[uname], pwd) THEN [ok |-> TRUE, err |-> NoErr]
    ELSE [ok |-> FALSE, err |-> ErrBadPassword]

\* CheckPassword(uname, pwd): the map is read under RLock, the comparison is local
CheckPasswordResult(m, uname, pwd) ==
    IF uname \notin DOMAIN m THEN [ok |-> FALSE, err |-> ErrNotAUser]
    ELSE IF CompareHashAndPassword(m[uname], pwd) THEN [ok |-> TRUE, err |-> NoErr]
    ELSE [ok |-> FALSE, err |-> ErrBadPassword]

CheckPassword(p, uname, pwd) ==
    /\ Begin(p)
    /\ umu = NoProc
    /\ LET res == CheckPasswordResult(users, uname, pwd) IN
         Ret(p, [Blank EXCEPT !.op = "CheckPassword", !.uname = uname, !.pwd = pwd],
             res.ok, res.err, "")
    /\ UNCHANGED <<now, ustore, kstore, files, locks, hist>>

\* ===================================================================
\*                               KeyStore
\* ===================================================================

\* KeysDirty(): RLock; b := kdirty; RUnlock
KeysDirty(p) ==
    /\ Begin(p)
    /\ kmu = NoProc
    /\ Ret(p, [Blank EXCEPT !.op = "KeysDirty"], kdirty, NoErr, "")
    /\ UNCHANGED <<now, ustore, kstore, files, locks, hist>>

\* the loop of LoadKeys over recs[i..], filling m; stops at the first short
\* record; a record that is not in the future of tnow is skipped
RECURSIVE LoadKeysLoop(_, _, _, _)
LoadKeysLoop(recs, i, m, tnow) ==
    IF i > Len(recs) THEN [keys |-> m, err |-> NoErr]
    ELSE IF Len(recs[i]) < 3 THEN [keys |-> m, err |-> ErrFormat]
    ELSE LET t == TimeUnix(recs[i][2]) IN
         LoadKeysLoop(recs, i + 1,
                      IF tnow < t
                      THEN MapPut(m, recs[i][3], [uname |-> recs[i][1], until |-> t])
                      ELSE m,
                      tnow)

\* LoadKeys(), lines 217-235: file_mu.Lock; Open; ReadAll; Close; file_mu.Unlock
LoadKeysRead(p) ==
    /\ Begin(p)
    /\ file_mu = NoProc
    /\ IF ReadAllOK(key_file)
       THEN /\ Goto(p, "lk_now")
            /\ SetLoc(p, [Blank EXCEPT !.op = "LoadKeys", !.recs = key_file])
       ELSE Ret(p, [Blank EXCEPT !.op = "LoadKeys"], FALSE, ErrIO, "")
    /\ UNCHANGED <<now, ustore, kstore, files, locks, hist>>

\* LoadKeys(), line 237: now := time.Now()
LoadKeysNow(p) ==
    /\ At(p, "lk_now")
    /\ Goto(p, "lk_store")
    /\ SetLoc(p, [loc[p] EXCEPT !.now = now])
    /\ UNCHANGED <<now, ustore, kstore, files, locks, hist>>

\* LoadKeys(), lines 238-253: kmu.Lock; keys = make(...); loop; kdirty = false
LoadKeysStore(p) ==
    /\ At(p, "lk_store")
    /\ kmu = NoProc
    /\ LET res == LoadKeysLoop(loc[p].recs, 1, EmptyMap, loc[p].now) IN
         /\ keys' = res.keys
         /\ kdirty' = IF res.err = NoErr THEN FALSE ELSE kdirty
         /\ Ret(p, Done(p), res.err = NoErr, res.err, "")
    /\ UNCHANGED <<now, ustore, files, locks, hist>>

\* a FlushKeys that opens the file without locking file_mu
FlushKeysOpen_NoLock(p) ==
    /\ Begin(p)
    /\ key_file' = <<>>
    /\ Goto(p, "fk_lock")
    /\ SetLoc(p, [Blank EXCEPT !.op = "FlushKeys", !.now = now])
    /\ UNCHANGED <<now, ustore, kstore, hash_file, locks, hist>>

\* FlushKeys(), lines 267-276: file_mu.Lock; OpenFile(O_TRUNC); now := time.Now()
FlushKeysOpen(p) ==
    /\ Begin(p)
    /\ file_mu = NoProc
    /\ file_mu' = p
    /\ key_file' = <<>>
    /\ Goto(p, "fk_lock")
    /\ SetLoc(p, [Blank EXCEPT !.op = "FlushKeys", !.now = now])
    /\ UNCHANGED <<now, ustore, kstore, hash_file, umu, kmu, hist>>

\* FlushKeys(), line 278: kmu.Lock()
FlushKeysLock(p) ==
    /\ At(p, "fk_lock")
    /\ kmu = NoProc
    /\ kmu' = p
    /\ Goto(p, "fk_write")
    /\ UNCHANGED <<now, ustore, kstore, files, file_mu, umu, loc, hist>>

\* what FlushKeys writes: uname, until.Unix(), key for every key with until
\* after tnow, in the order range visits them
KeyRecords(m, order) ==
    [i \in 1..Len(order) |-> <<m[order[i]].uname, Unix(m[order[i]].until), order[i]>>]
Unexpired(m, tnow) == {t \in DOMAIN m : m[t].until > tnow}

\* FlushKeys(), lines 280-297 with no I/O failure: write, close, kdirty = false;
\* the deferred unlocks release both locks
FlushKeysWrite(p) ==
    /\ At(p, "fk_write")
    /\ \E order \in RangeOrders(Unexpired(keys, loc[p].now)) :
         key_file' = KeyRecords(keys, order)
    /\ kdirty' = FALSE
    /\ kmu' = NoProc
    /\ file_mu' = NoProc
    /\ Ret(p, Done(p), TRUE, NoErr, "")
    /\ UNCHANGED <<now, ustore, keys, hash_file, umu, hist>>

\* CheckKey whose expiry test is not strict
CheckKeyResult_NotStrict(k, uname, tnow) ==
    IF k.exists /\ uname = k.uname /\ k.until >= tnow
    THEN [ok |-> TRUE, err |-> NoErr]
    ELSE [ok |-> FALSE, err |-> ErrBadKey]

\* the test of CheckKey() on the record k read from the map, at time tnow
CheckKeyResult(k, uname, tnow) ==
    IF k.exists
    THEN IF uname = k.uname
         THEN IF k.until > tnow THEN [ok |-> TRUE, err |-> NoErr]
              ELSE [ok |-> FALSE, err |-> ErrBadKey]
         ELSE [ok |-> FALSE, err |-> ErrBadKey]
    ELSE [ok |-> FALSE, err |-> ErrBadKey]

\* CheckKey(), lines 427-429: RLock; k, exists := keys[keystr]; RUnlock
CheckKeyRead(p, uname, keystr) ==
    /\ Begin(p)
    /\ kmu = NoProc
    /\ Goto(p, "ck_now")
    /\ SetLoc(p, [Blank EXCEPT !.op = "CheckKey", !.uname = uname, !.keystr = keystr,
                               !.k = MapGetKey(keys, keystr)])
    /\ UNCHANGED <<now, ustore, kstore, files, locks, hist>>

\* CheckKey(), lines 430-437: the test against time.Now()
CheckKeyNow(p) ==
    /\ At(p, "ck_now")
    /\ LET res == CheckKeyResult(loc[p].k, loc[p].uname, now) IN
         Ret(p, Done(p), res.ok, res.err, "")
    /\ UNCHANGED <<now, ustore, kstore, files, locks, hist>>

\* CheckPasswordAndIssueKey(), lines 446-449: CheckPassword(uname, pwd)
IssueCheckPassword(p, uname, pwd) ==
    /\ Begin(p)
    /\ umu = NoProc
    /\ LET res == CheckPasswordResult(users, uname, pwd)
           r == [Blank EXCEPT !.op = "CheckPasswordAndIssueKey",
                              !.uname = uname, !.pwd = pwd]
       IN IF res.ok
          THEN Goto(p, "issue_insert") /\ SetLoc(p, r)
          ELSE Ret(p, r, FALSE, res.err, "")
    /\ UNCHANGED <<now, ustore, kstore, files, locks, hist>>

\* an issue that grants one tick more than key_lifetime
IssuedKey_TooLong(uname, tnow) == [uname |-> uname, until |-> tnow + key_lifetime + 1]

\* the record CheckPasswordAndIssueKey() stores
IssuedKey(uname, tnow) == [uname |-> uname, until |-> tnow + key_lifetime]

\* an issue that drops every other record of the map
IssueInsert_Clobber(p, kstr) ==
    /\ At(p, "issue_insert")
    /\ kmu = NoProc
    /\ keys' = MapPut(EmptyMap, kstr, IssuedKey(loc[p].uname, now))
    /\ kdirty' = TRUE
    /\ stamp' = [stamp EXCEPT ![kstr] = now]
    /\ Ret(p, Done(p), TRUE, NoErr, kstr)
    /\ UNCHANGED <<now, ustore, files, locks, acct>>

\* CheckPasswordAndIssueKey(), lines 450-455: kstr := generate_key(); kmu.Lock;
\* keys[kstr] = key{uname, now + key_lifetime}; kdirty = true
IssueInsert(p, kstr) ==
    /\ At(p, "issue_insert")
    /\ kmu = NoProc
    /\ keys' = MapPut(keys, kstr, IssuedKey(loc[p].uname, now))
    /\ kdirty' = TRUE
    /\ stamp' = [stamp EXCEPT ![kstr] = now]
    /\ Ret(p, Done(p), TRUE, NoErr, kstr)
    /\ UNCHANGED <<now, ustore, files, locks, acct>>

\* CheckAndRefreshKey(), line 464, first half of CheckKey(): the map read
RefreshRead(p, uname, keystr) ==
    /\ Begin(p)
    /\ kmu = NoProc
    /\ Goto(p, "refresh_now")
    /\ SetLoc(p, [Blank EXCEPT !.op = "CheckAndRefreshKey", !.uname = uname,
                               !.keystr = keystr, !.k = MapGetKey(keys, keystr)])
    /\ UNCHANGED <<now, ustore, kstore, files, locks, hist>>

\* a CheckAndRefreshKey that marks the keys dirty when it fails
RefreshNow_DirtyOnFail(p) ==
    /\ At(p, "refresh_now")
    /\ LET res == CheckKeyResult(loc[p].k, loc[p].uname, now) IN
         IF res.ok
         THEN Goto(p, "refresh_update") /\ UNCHANGED <<loc, kdirty>>
         ELSE Ret(p, Done(p), FALSE, res.err, "") /\ kdirty' = TRUE
    /\ UNCHANGED <<now, ustore, keys, files, locks, hist>>

\* CheckAndRefreshKey(), lines 464-465: CheckKey()'s test; return if !ok
RefreshNow(p) ==
    /\ At(p, "refresh_now")
    /\ LET res == CheckKeyResult(loc[p].k, loc[p].uname, now) IN
         IF res.ok
         THEN Goto(p, "refresh_update") /\ UNCHANGED loc
         ELSE Ret(p, Done(p), FALSE, res.err, "")
    /\ UNCHANGED <<now, ustore, kstore, files, locks, hist>>

\* the record CheckAndRefreshKey() stores: k := keys[keystr]; k.until = ...
RefreshedKey(m, keystr, tnow) ==
    [uname |-> MapGetKey(m, keystr).uname, until |-> tnow + key_lifetime]

\* CheckAndRefreshKey(), lines 466-472: kmu.Lock; update; kdirty = true
RefreshUpdate(p) ==
    /\ At(p, "refresh_update")
    /\ kmu = NoProc
    /\ keys' = MapPut(keys, loc[p].keystr, RefreshedKey(keys, loc[p].keystr, now))
    /\ kdirty' = TRUE
    /\ stamp' = [stamp EXCEPT ![loc[p].keystr] = now]
    /\ Ret(p, Done(p), TRUE, NoErr, "")
    /\ UNCHANGED <<now, ustore, files, locks, acct>>

\* CullOldKeys(), lines 479-480: now := time.Now()
CullNow(p) ==
    /\ Begin(p)
    /\ Goto(p, "cull_scan")
    /\ SetLoc(p, [Blank EXCEPT !.op = "CullOldKeys", !.now = now])
    /\ UNCHANGED <<now, ustore, kstore, files, locks, hist>>

\* the keys the scan of CullOldKeys() collects
OldKeys(m, tnow) == {kstr \in DOMAIN m : tnow > m[kstr].until}

\* CullOldKeys(), lines 481-487: RLock; collect the expired keys; RUnlock
CullScan(p) ==
    /\ At(p, "cull_scan")
    /\ kmu = NoProc
    /\ Goto(p, "cull_delete")
    /\ SetLoc(p, [loc[p] EXCEPT !.old = OldKeys(keys, loc[p].now)])
    /\ UNCHANGED <<now, ustore, kstore, files, locks, hist>>

\* the dirty flag CullOldKeys() leaves
CullDirty(old, dirty) == IF Cardinality(old) > 0 THEN TRUE ELSE dirty

\* CullOldKeys(), lines 488-493: Lock; delete every collected key; set kdirty
CullDelete(p) ==
    /\ At(p, "cull_delete")
    /\ kmu = NoProc
    /\ keys' = MapDel(keys, loc[p].old)
    /\ kdirty' = CullDirty(loc[p].old, kdirty)
    /\ Ret(p, Done(p), TRUE, NoErr, "")
    /\ UNCHANGED <<now, ustore, files, locks, hist>>

\* ===================================================================
\*                         the callers and the clock
\* ===================================================================

\* the caller takes the results and is free to call again
Return(p) ==
    /\ At(p, "ret")
    /\ Goto(p, "idle")
    /\ SetLoc(p, Blank)
    /\ UNCHANGED <<now, ustore, kstore, files, locks, hist>>

\* time passes
Tick ==
    /\ now < MaxTime
    /\ now' = now + 1
    /\ UNCHANGED <<calls, ustore, kstore, files, locks, pc, loc, hist>>

\* The files Configure() finds: well-formed, as an earlier run flushed them.
InitUserFiles == { <<>>, << <<"alice", Hash("secret1")>> >> }
InitKeyFiles == { <<>>, << <<"alice", 1, "k1">> >> }

\* The state after a successful Configure(): init() has made the mutexes,
\* LoadUsers() and LoadKeys() have loaded both files at time 0.
Init ==
    /\ now = 0
    /\ hash_file \in InitUserFiles
    /\ key_file \in InitKeyFiles
    /\ users = LoadUsersLoop(hash_file, 1, EmptyMap).users
    /\ udirty = FALSE
    /\ keys = LoadKeysLoop(key_file, 1, EmptyMap, 0).keys
    /\ kdirty = FALSE
    /\ file_mu = NoProc
    /\ umu = NoProc
    /\ kmu = NoProc
    /\ pc = [p \in Procs |-> "idle"]
    /\ loc = [p \in Procs |-> Blank]
    /\ acct = [n \in Names |-> "none"]
    /\ stamp = [t \in Tokens |-> 0]
    /\ calls = 0

NextUsers ==
    \E p \in Procs :
        \/ UsersDirty(p)
        \/ LoadUsersRead(p)
        \/ LoadUsersStore(p)
        \/ FlushUsersLock(p)
        \/ FlushUsersFileLock(p)
        \/ FlushUsersWrite(p)
        \/ \E uname \in Names, pwd \in Passwords : AddUser(p, uname, pwd)
        \/ \E uname \in Names : DeleteUser(p, uname)
        \/ \E uname \in Names, pwd \in Passwords : CheckPassword(p, uname, pwd)

NextKeys ==
    \E p \in Procs :
        \/ KeysDirty(p)
        \/ LoadKeysRead(p)
        \/ LoadKeysNow(p)
        \/ LoadKeysStore(p)
        \/ FlushKeysOpen(p)
        \/ FlushKeysLock(p)
        \/ FlushKeysWrite(p)
        \/ \E uname \in Names, keystr \in Tokens : CheckKeyRead(p, uname, keystr)
        \/ CheckKeyNow(p)
        \/ \E uname \in Names, pwd \in Passwords : IssueCheckPassword(p, uname, pwd)
        \/ \E kstr \in Tokens : IssueInsert(p, kstr)
        \/ \E uname \in Names, keystr \in Tokens : RefreshRead(p, uname, keystr)
        \/ RefreshNow(p)
        \/ RefreshUpdate(p)
        \/ CullNow(p)
        \/ CullScan(p)
        \/ CullDelete(p)

Next ==
    \/ NextUsers
    \/ NextKeys
    \/ \E p \in Procs : Return(p)
    \/ Tick

Spec == Init /\ [][Next]_vars

\* The key store alone: the callers use only the functions that touch keys,
\* kdirty and the key file (CheckPasswordAndIssueKey reads users, which no
\* step of this specification changes).
NextKeyStore ==
    \/ NextKeys
    \/ \E p \in Procs : Return(p)
    \/ Tick

SpecKeys == Init /\ [][NextKeyStore]_vars

\* The user store alone: the callers use only the functions that touch users,
\* udirty and the user file; none of them reads the clock.
NextUserStore ==
    \/ NextUsers
    \/ \E p \in Procs : Return(p)

SpecUsers == Init /\ [][NextUserStore]_vars

\* ===================================================================
\*               the environment: I/O failures and file edits
\* ===================================================================

\* the records that have reached the file when a write fails part-way
Prefixes(recs) == {SubSeq(recs, 1, n) : n \in 0..Len(recs)}

\* LoadUsers(), lines 118-135: Open, ReadAll or Close fails
LoadUsersIOFail(p) ==
    /\ Begin(p)
    /\ file_mu = NoProc
    /\ Ret(p, [Blank EXCEPT !.op = "LoadUsers"], FALSE, ErrIO, "")
    /\ UNCHANGED <<now, ustore, kstore, files, locks, hist>>

\* LoadKeys(), lines 219-235: Open, ReadAll or Close fails
LoadKeysIOFail(p) ==
    /\ Begin(p)
    /\ file_mu = NoProc
    /\ Ret(p, [Blank EXCEPT !.op = "LoadKeys"], FALSE, ErrIO, "")
    /\ UNCHANGED <<now, ustore, kstore, files, locks, hist>>

\* a FlushUsers whose error return leaves umu locked
FlushUsersOpenFail_KeepLock(p) ==
    /\ At(p, "fu_write")
    /\ file_mu' = NoProc
    /\ Ret(p, Done(p), FALSE, ErrIO, "")
    /\ UNCHANGED <<now, ustore, kstore, files, umu, kmu, hist>>

\* FlushUsers(), lines 168-171: OpenFile fails, the file is as it was
FlushUsersOpenFail(p) ==
    /\ At(p, "fu_write")
    /\ umu' = NoProc
    /\ file_mu' = NoProc
    /\ Ret(p, Done(p), FALSE, ErrIO, "")
    /\ UNCHANGED <<now, ustore, kstore, files, kmu, hist>>

\* FlushUsers(), lines 176-194: a Write, the Flush or the Close fails after the
\* file was truncated; some of the records may have reached it
FlushUsersWriteFail(p) ==
    /\ At(p, "fu_write")
    /\ \E order \in RangeOrders(DOMAIN users) :
         \E written \in Prefixes(UserRecords(users, order)) : hash_file' = written
    /\ umu' = NoProc
    /\ file_mu' = NoProc
    /\ Ret(p, Done(p), FALSE, ErrIO, "")
    /\ UNCHANGED <<now, ustore, kstore, key_file, kmu, hist>>

\* FlushKeys(), lines 268-272: OpenFile fails, the file is as it was
FlushKeysOpenFail(p) ==
    /\ Begin(p)
    /\ file_mu = NoProc
    /\ Ret(p, [Blank EXCEPT !.op = "FlushKeys"], FALSE, ErrIO, "")
    /\ UNCHANGED <<now, ustore, kstore, files, locks, hist>>

\* FlushKeys(), lines 282-294: a Write or the Close returns an error; some of
\* the records may have reached the file
FlushKeysWriteFail(p) ==
    /\ At(p, "fk_write")
    /\ \E order \in RangeOrders(Unexpired(keys, loc[p].now)) :
         \E written \in Prefixes(KeyRecords(keys, order)) : key_file' = written
    /\ kmu' = NoProc
    /\ file_mu' = NoProc
    /\ Ret(p, Done(p), FALSE, ErrIO, "")
    /\ UNCHANGED <<now, ustore, kstore, hash_file, umu, hist>>

\* FlushKeys(), lines 290-297: the buffered records fail to reach the file in
\* w.Flush(), whose error (w.Error()) is not looked at; Close succeeds
FlushKeysFlushFail(p) ==
    /\ At(p, "fk_write")
    /\ \E order \in RangeOrders(Unexpired(keys, loc[p].now)) :
         \E written \in Prefixes(KeyRecords(keys, order)) :
            /\ written # KeyRecords(keys, order)
            /\ key_file' = written
    /\ kdirty' = FALSE
    /\ kmu' = NoProc
    /\ file_mu' = NoProc
    /\ Ret(p, Done(p), TRUE, NoErr, "")
    /\ UNCHANGED <<now, ustore, keys, hash_file, umu, hist>>

\* The CSV files are plain text that an operator or another tool can rewrite
\* while no call has them open: a short record, records of different lengths,
\* or other well-formed contents.
EditedUserFiles ==
    { << <<"alice">> >>,
      << <<"alice", Hash("secret1")>>, <<"bob">> >>,
      << <<"bob", Hash("secret2")>> >> }
EditedKeyFiles ==
    { << <<"alice", 2>> >>,
      << <<"alice", 2, "k1">>, <<"bob", 2>> >>,
      << <<"bob", 2, "k2">> >> }

EditUserFile(f) ==
    /\ file_mu = NoProc
    /\ calls < MaxCalls
    /\ calls' = calls + 1
    /\ hash_file' = f
    /\ UNCHANGED <<now, ustore, kstore, key_file, locks, pc, loc, hist>>

EditKeyFile(f) ==
    /\ file_mu = NoProc
    /\ calls < MaxCalls
    /\ calls' = calls + 1
    /\ key_file' = f
    /\ UNCHANGED <<now, ustore, kstore, hash_file, locks, pc, loc, hist>>

NextEnv ==
    \/ \E p \in Procs :
        \/ LoadUsersIOFail(p)
        \/ LoadKeysIOFail(p)
        \/ FlushUsersOpenFail(p)
        \/ FlushUsersWriteFail(p)
        \/ FlushKeysOpenFail(p)
        \/ FlushKeysWriteFail(p)
        \/ FlushKeysFlushFail(p)
    \/ \E f \in EditedUserFiles : EditUserFile(f)
    \/ \E f \in EditedKeyFiles : EditKeyFile(f)

\* the program in an environment where I/O can fail and the files can be edited
SpecEnv == Init /\ [][Next \/ NextEnv]_vars

\* ===================================================================
\*                              properties
\* ===================================================================

\* caller p takes the step that leads from label from to label to
Steps(p, from, to) == pc[p] = from /\ pc'[p] = to

\* C1: the update step of CheckAndRefreshKey(u, k) only rewrites the expiry of
\* a record that is in the map with owner u when it runs; it adds no key to the
\* map, and leaves no record with an empty owner.
C1_RefreshRewritesPresentRecord ==
    [][\A p \in Procs :
         Steps(p, "refresh_update", "ret") =>
            /\ loc[p].keystr \in DOMAIN keys
            /\ keys[loc[p].keystr].uname = loc[p].uname
            /\ DOMAIN keys' = DOMAIN keys
            /\ \A t \in DOMAIN keys' : keys'[t].uname # ""]_vars

\* C2: when CheckAndRefreshKey(u, k) returns true the map holds k with owner u
\* and expiry (time of the update + key_lifetime), not earlier than the old
\* expiry; and the delete phase of CullOldKeys removes no record that is
\* unexpired when it runs, so a refreshed record stays until its expiry.
C2_RefreshedRecordStays ==
    [][\A p \in Procs :
         /\ Steps(p, "refresh_update", "ret") =>
              /\ loc[p].keystr \in DOMAIN keys'
              /\ keys'[loc[p].keystr].uname = loc[p].uname
              /\ keys'[loc[p].keystr].until = now + key_lifetime
              /\ loc[p].keystr \in DOMAIN keys =>
                    keys'[loc[p].keystr].until >= keys[loc[p].keystr].until
         /\ Steps(p, "cull_delete", "ret") =>
              \A t \in DOMAIN keys :
                 keys[t].until > now => t \in DOMAIN keys' /\ keys'[t] = keys[t]]_vars

\* the records of a file, as a set
Records(file) == {file[i] : i \in 1..Len(file)}

\* C3: whenever UsersDirty() can return false, the user map holds exactly the
\* records of the user file; whenever KeysDirty() can return false, the
\* unexpired records of the key map are exactly the unexpired records of the
\* key file.
C3_CleanMeansPersisted ==
    /\ (umu = NoProc /\ ~udirty) =>
          {<<n, users[n]>> : n \in DOMAIN users} = Records(hash_file)
    /\ (kmu = NoProc /\ ~kdirty) =>
          {<<keys[t].uname, keys[t].until, t>> : t \in Unexpired(keys, now)}
             = {<<r[1], TimeUnix(r[2]), r[3]>> :
                    r \in {x \in Records(key_file) : TimeUnix(x[2]) > now}}

\* C4: a LoadUsers or LoadKeys that fails on a short record leaves the map and
\* the dirty flag of its store as they were.
C4_FailedLoadChangesNothing ==
    [][\A p \in Procs :
         /\ (Steps(p, "lu_store", "ret") /\ loc'[p].err = ErrFormat) =>
               users' = users /\ udirty' = udirty
         /\ (Steps(p, "lk_store", "ret") /\ loc'[p].err = ErrFormat) =>
               keys' = keys /\ kdirty' = kdirty]_vars

\* caller p takes the one step of AddUser / DeleteUser
AddUserStep(p) == Steps(p, "idle", "ret") /\ loc'[p].op = "AddUser"
DeleteUserStep(p) == Steps(p, "idle", "ret") /\ loc'[p].op = "DeleteUser"

C6_VerifiesUntilDeleted ==
    [][\A n \in Names :
         /\ (acct[n] \in Passwords
               /\ ~(\E p \in Procs : DeleteUserStep(p) /\ loc'[p].uname = n /\ loc'[p].ok))
              => CheckPasswordResult(users', n, acct[n]).ok
         /\ (acct[n] = "deleted"
               /\ ~(\E p \in Procs : AddUserStep(p) /\ loc'[p].uname = n /\ loc'[p].ok))
              => \A pwd \in Passwords :
                    CheckPasswordResult(users', n, pwd).err = ErrNotAUser]_vars

\* C6 as amended: an account added by a successful AddUser(name, password)
\* passes CheckPassword(name, password) in every later state until
\* DeleteUser(name) succeeds or LoadUsers replaces the map; after a successful
\* DeleteUser(name), CheckPassword(name, _) returns ErrNotAUser until name is
\* added again or LoadUsers replaces the map.  (acct forgets a name at the
\* step of LoadUsers that replaces the map.)
C6_VerifiesUntilDeletedOrLoaded ==
    \A n \in Names :
        /\ acct[n] \in Passwords => CheckPasswordResult(users, n, acct[n]).ok
        /\ acct[n] = "deleted" =>
              \A pwd \in Passwords : CheckPasswordResult(users, n, pwd).err = ErrNotAUser

\* one account was added and another deleted, and a CheckPassword of the added
\* one has returned true
C6_Witness ==
    \E n, m \in Names, p \in Procs :
        /\ acct[n] \in Passwords
        /\ acct[m] = "deleted"
        /\ pc[p] = "ret" /\ loc[p].op = "CheckPassword"
        /\ loc[p].uname = n /\ loc[p].pwd = acct[n] /\ loc[p].ok

\* C7: CheckKey(owner, token) reads the record of token from the map and
\* returns true exactly when the record exists, its owner is owner and the
\* time of the test is strictly before its expiry; every false comes with
\* ErrBadKey, every true with no error.
C7_CheckKeyExact ==
    [][\A p \in Procs :
         /\ (Steps(p, "idle", "ck_now")) =>
              /\ loc'[p].k.exists = (loc'[p].keystr \in DOMAIN keys)
              /\ loc'[p].k.exists =>
                    /\ loc'[p].k.uname = keys[loc'[p].keystr].uname
                    /\ loc'[p].k.until = keys[loc'[p].keystr].until
         /\ Steps(p, "ck_now", "ret") =>
              /\ loc'[p].ok = (/\ loc[p].k.exists
                               /\ loc[p].k.uname = loc[p].uname
                               /\ now < loc[p].k.until)
              /\ loc'[p].err = (IF loc'[p].ok THEN NoErr ELSE ErrBadKey)]_vars

\* a CheckKey that has read an expired record of the right owner, not yet culled
C7_Witness ==
    \E p \in Procs :
        /\ pc[p] = "ck_now"
        /\ loc[p].k.exists
        /\ loc[p].k.uname = loc[p].uname
        /\ loc[p].k.until <= now
        /\ loc[p].keystr \in DOMAIN keys

\* what CheckKey(uname, keystr) would return in the current state
WouldCheckKey(uname, keystr) == CheckKeyResult(MapGetKey(keys, keystr), uname, now).ok

\* C8: in the state the insert of CheckPasswordAndIssueKey(owner, pwd) leaves,
\* CheckKey(owner, T) is true for the token T it returns; and in every state
\* where key_lifetime has passed since T was last issued or refreshed,
\* CheckKey(owner, T) is false for every owner.
C8_IssuedKeyLifetime ==
    /\ [][\A p \in Procs :
            Steps(p, "issue_insert", "ret") =>
               /\ loc'[p].ok /\ loc'[p].out \in Tokens
               /\ CheckKeyResult(MapGetKey(keys', loc'[p].out), loc[p].uname, now').ok]_vars
    /\ [](\A t \in Tokens, u \in Names :
            now >= stamp[t] + key_lifetime => ~WouldCheckKey(u, t))

\* a caller holds a token it was issued, whose record is still in the map
\* although key_lifetime has passed since
C8_Witness ==
    \E p \in Procs :
        /\ pc[p] = "ret"
        /\ loc[p].op = "CheckPasswordAndIssueKey"
        /\ loc[p].ok
        /\ loc[p].out \in DOMAIN keys
        /\ now >= stamp[loc[p].out] + key_lifetime

\* C9: the delete phase of CullOldKeys leaves exactly the records with
\* expires_at > now (now: the time the cull took), each unchanged.
C9_CullRemovesExactlyExpired ==
    [][\A p \in Procs :
         Steps(p, "cull_delete", "ret") =>
            /\ DOMAIN keys' = {t \in DOMAIN keys : keys[t].until > loc[p].now}
            /\ \A t \in DOMAIN keys' : keys'[t] = keys[t]]_vars

\* C10: CullOldKeys turns kdirty from false to true exactly when its delete
\* phase removes at least one record; a cull that removes nothing leaves
\* kdirty as it was.
C10_CullDirtyIffDeleted ==
    [][\A p \in Procs :
         Steps(p, "cull_delete", "ret") =>
            /\ (DOMAIN keys' = DOMAIN keys) => kdirty' = kdirty
            /\ (DOMAIN keys' # DOMAIN keys) => kdirty']_vars

\* caller p returns from a call of op that failed
Fails(p, op) == pc[p] # "ret" /\ pc'[p] = "ret" /\ loc'[p].op = op /\ ~loc'[p].ok

\* C11: a successful AddUser or DeleteUser leaves udirty true, an issue or a
\* refresh leaves kdirty true; a dirty flag goes from true to false only in the
\* step that completes a Load of its store that parsed every record, or a Flush
\* of its store that returned nil with every record it had to write in the
\* file; a Load or Flush that returns an error leaves the flag as it was.
C11_DirtyFlagProtocol ==
    [][/\ \A p \in Procs :
            /\ (AddUserStep(p) /\ loc'[p].ok) => udirty'
            /\ (DeleteUserStep(p) /\ loc'[p].ok) => udirty'
            /\ Steps(p, "issue_insert", "ret") => kdirty'
            /\ Steps(p, "refresh_update", "ret") => kdirty'
            /\ (Fails(p, "LoadUsers") \/ Fails(p, "FlushUsers")) => udirty' = udirty
            /\ (Fails(p, "LoadKeys") \/ Fails(p, "FlushKeys")) => kdirty' = kdirty
       /\ (udirty /\ ~udirty') =>
            \E p \in Procs :
                /\ loc'[p].ok
                /\ \/ Steps(p, "lu_store", "ret")
                   \/ /\ Steps(p, "fu_write", "ret")
                      /\ Records(hash_file') = {<<n, users[n]>> : n \in DOMAIN users}
       /\ (kdirty /\ ~kdirty') =>
            \E p \in Procs :
                /\ loc'[p].ok
                /\ \/ Steps(p, "lk_store", "ret")
                   \/ /\ Steps(p, "fk_write", "ret")
                      /\ Records(key_file') =
                            {<<keys[t].uname, Unix(keys[t].until), t>> :
                                t \in Unexpired(keys, loc[p].now)}]_vars


\* The two stores with the calls that change and persist them: the callers add
\* and delete users, issue keys, and load and flush both stores.
NextPersist ==
    \/ \E p \in Procs :
        \/ LoadUsersRead(p)
        \/ LoadUsersStore(p)
        \/ FlushUsersLock(p)
        \/ FlushUsersFileLock(p)
        \/ FlushUsersWrite(p)
        \/ \E uname \in Names, pwd \in Passwords : AddUser(p, uname, pwd)
        \/ \E uname \in Names : DeleteUser(p, uname)
        \/ LoadKeysRead(p)
        \/ LoadKeysNow(p)
        \/ LoadKeysStore(p)
        \/ FlushKeysOpen(p)
        \/ FlushKeysLock(p)
        \/ FlushKeysWrite(p)
        \/ \E uname \in Names, pwd \in Passwords : IssueCheckPassword(p, uname, pwd)
        \/ \E kstr \in Tokens : IssueInsert(p, kstr)
        \/ Return(p)
    \/ Tick

SpecPersist == Init /\ [][NextPersist]_vars


\* the files a FlushUsers of map m, and a FlushKeys of map m at time tnow, can leave
UserImages(m) == {UserRecords(m, order) : order \in RangeOrders(DOMAIN m)}
KeyImages(m, tnow) == {KeyRecords(m, order) : order \in RangeOrders(Unexpired(m, tnow))}

\* m without the records that are expired at tnow
Live(m, tnow) == [t \in Unexpired(m, tnow) |-> m[t]]
\* t rounded down to a whole second
WholeSeconds(t) == t - (t % TicksPerSec)

\* C12 as claimed: a Load that stores the records a Flush of the map in memory
\* has written (at a time tf, not after the load's) succeeds and leaves the
\* same user map, and the key map with the same unexpired records: same
\* tokens, owners and expiries.
C12_RoundTripIdentical ==
    [][\A p \in Procs :
         /\ (Steps(p, "lu_store", "ret") /\ loc[p].recs \in UserImages(users)) =>
               loc'[p].ok /\ users' = users
         /\ Steps(p, "lk_store", "ret") =>
               \A tf \in 0..loc[p].now :
                  loc[p].recs \in KeyImages(keys, tf) =>
                     loc'[p].ok /\ keys' = Live(keys, loc[p].now)]_vars

\* C12 as amended: such a Load leaves the same user map; it leaves the key map
\* with the records that were unexpired at the flush, each with its token and
\* owner and with its expiry rounded down to a whole second, but for those
\* whose rounded expiry is not after the time of the load.
C12_RoundTripWholeSeconds ==
    [][\A p \in Procs :
         /\ (Steps(p, "lu_store", "ret") /\ loc[p].recs \in UserImages(users)) =>
               loc'[p].ok /\ users' = users
         /\ Steps(p, "lk_store", "ret") =>
               \A tf \in 0..loc[p].now :
                  loc[p].recs \in KeyImages(keys, tf) =>
                     /\ loc'[p].ok
                     /\ keys' = [t \in {x \in Unexpired(keys, tf) :
                                           WholeSeconds(keys[x].until) > loc[p].now} |->
                                   [uname |-> keys[t].uname,
                                    until |-> WholeSeconds(keys[t].until)]]]_vars

\* FlushKeys and then LoadKeys have returned, and the map holds a key that no
\* initial file has, with an expiry earlier than the issue gave it
C12_Witness ==
    \E p, q \in Procs :
        /\ pc[p] = "ret" /\ loc[p].op = "FlushKeys" /\ loc[p].ok
        /\ pc[q] = "ret" /\ loc[q].op = "LoadKeys" /\ loc[q].ok
        /\ "k2" \in DOMAIN keys
        /\ keys["k2"].until < stamp["k2"] + key_lifetime
        /\ key_file \in KeyImages(keys, now)


\* ===================================================================
\*                       scheduling and the locks
\* ===================================================================

\* a step of a call that caller p has started, failing steps included
Continue(p) ==
    \/ LoadUsersStore(p)
    \/ FlushUsersFileLock(p)
    \/ FlushUsersWrite(p)
    \/ FlushUsersOpenFail(p)
    \/ FlushUsersWriteFail(p)
    \/ LoadKeysNow(p)
    \/ LoadKeysStore(p)
    \/ FlushKeysLock(p)
    \/ FlushKeysWrite(p)
    \/ FlushKeysWriteFail(p)
    \/ FlushKeysFlushFail(p)
    \/ CheckKeyNow(p)
    \/ \E kstr \in Tokens : IssueInsert(p, kstr)
    \/ RefreshNow(p)
    \/ RefreshUpdate(p)
    \/ CullScan(p)
    \/ CullDelete(p)

\* the first step of a call by caller p, failing steps included
Call(p) ==
    \/ UsersDirty(p)
    \/ LoadUsersRead(p)
    \/ LoadUsersIOFail(p)
    \/ FlushUsersLock(p)
    \/ \E uname \in Names, pwd \in Passwords : AddUser(p, uname, pwd)
    \/ \E uname \in Names : DeleteUser(p, uname)
    \/ \E uname \in Names, pwd \in Passwords : CheckPassword(p, uname, pwd)
    \/ KeysDirty(p)
    \/ LoadKeysRead(p)
    \/ LoadKeysIOFail(p)
    \/ FlushKeysOpen(p)
    \/ FlushKeysOpenFail(p)
    \/ \E uname \in Names, keystr \in Tokens : CheckKeyRead(p, uname, keystr)
    \/ \E uname \in Names, pwd \in Passwords : IssueCheckPassword(p, uname, pwd)
    \/ \E uname \in Names, keystr \in Tokens : RefreshRead(p, uname, keystr)
    \/ CullNow(p)

NextSched == \E p \in Procs : Call(p) \/ Continue(p) \/ Return(p)

\* Every function of the package called by concurrent goroutines, I/O failures
\* included, at one instant of the clock (no step waits for the clock).  The Go
\* scheduler runs every runnable goroutine, and a goroutine waiting in Lock()
\* gets the mutex once it is free: a started call that can take its next step
\* takes it.
SpecSched == Init /\ [][NextSched]_vars /\ \A p \in Procs : WF_vars(Continue(p))


\* caller p is inside a call that has not returned
Unfinished(p) == pc[p] \notin {"idle", "ret"}

\* the mutex the next step of caller p has to lock
WaitsFor(p) ==
    CASE pc[p] = "lu_store" -> umu
      [] pc[p] = "fu_file" -> file_mu
      [] pc[p] \in {"lk_store", "fk_lock", "issue_insert", "refresh_update",
                    "cull_scan", "cull_delete"} -> kmu
      [] OTHER -> NoProc
Blocked(p) == WaitsFor(p) \notin {NoProc, p}

\* the mutexes caller p holds
Held(p) == {m \in {"file_mu", "umu", "kmu"} :
               (m = "file_mu" /\ file_mu = p) \/ (m = "umu" /\ umu = p)
                  \/ (m = "kmu" /\ kmu = p)}

\* C13: in no state is every unfinished call blocked on a mutex; a caller that
\* is not inside a call holds no mutex (so every return, with or without an
\* error, has released them); and every unfinished call returns.
C13_DeadlockFree ==
    /\ []((\E p \in Procs : Unfinished(p)) =>
             \E p \in Procs : Unfinished(p) /\ ~Blocked(p))
    /\ [](\A p \in Procs : ~Unfinished(p) => Held(p) = {})
    /\ \A p \in Procs : Unfinished(p) ~> (pc[p] = "ret" /\ Held(p) = {})

\* FlushUsers holds umu and waits for file_mu, which FlushKeys holds while it
\* waits for kmu
C13_Witness ==
    \E p, q \in Procs :
        /\ pc[p] = "fu_file" /\ umu = p /\ Blocked(p)
        /\ pc[q] = "fk_lock" /\ file_mu = q /\ ~Blocked(q)


\* caller p holds a map lock and not file_mu, and its next step locks file_mu
LocksFileAfterMap(p) ==
    /\ pc[p] = "fu_file"
    /\ Held(p) \cap {"umu", "kmu"} # {}
    /\ "file_mu" \notin Held(p)
\* caller p holds file_mu and no map lock, and its next step locks a map lock
LocksMapAfterFile(p) ==
    /\ pc[p] \in {"lu_store", "lk_store", "fk_lock"}
    /\ "file_mu" \in Held(p)
    /\ Held(p) \cap {"umu", "kmu"} = {}

\* C14: the calls that hold file_mu and a map lock together take the two in
\* one order: never is one caller about to lock file_mu while it holds a map
\* lock when another is about to lock a map lock while it holds file_mu.
C14_OneLockOrder ==
    ~(\E p, q \in Procs : LocksFileAfterMap(p) /\ LocksMapAfterFile(q))


\* caller p has a backing file open across steps: FlushKeys, from OpenFile to Close
FileOpen(p) == pc[p] \in {"fk_lock", "fk_write"}
\* caller p takes a step that opens, reads, truncates, writes or closes a file
FileStep(p) ==
    \/ Steps(p, "idle", "lu_store")
    \/ Steps(p, "idle", "lk_now")
    \/ Steps(p, "idle", "ret") /\ loc'[p].op \in {"LoadUsers", "LoadKeys"}
    \/ Steps(p, "idle", "ret") /\ loc'[p].op = "FlushKeys"
    \/ Steps(p, "fu_write", "ret")
    \/ Steps(p, "idle", "fk_lock")
    \/ Steps(p, "fk_write", "ret")

\* C15: a caller that has a file open holds file_mu, so at most one has; every
\* step that touches a file is taken by a caller that holds file_mu or locks it
\* in that step, while no other caller has a file open; and the files change in
\* no other step.
C15_FilesUnderFileMu ==
    /\ [](\A p \in Procs : FileOpen(p) => file_mu = p)
    /\ [](Cardinality({p \in Procs : FileOpen(p)}) <= 1)
    /\ [][\A p \in Procs :
            FileStep(p) =>
               /\ file_mu \in {p, NoProc}
               /\ file_mu = NoProc => file_mu' \in {p, NoProc}
               /\ \A q \in Procs \ {p} : ~FileOpen(q)]_vars
    /\ [][files' # files => \E p \in Procs : FileStep(p)]_vars

\* FlushKeys has the key file open, truncated, while FlushUsers waits for
\* file_mu and the user file still holds its records
C15_Witness ==
    \E p, q \in Procs :
        /\ pc[p] = "fk_write" /\ FileOpen(p)
        /\ pc[q] = "fu_file"
        /\ hash_file # <<>>


\* caller p takes a step of a call of one of the functions ops
OpStep(p, ops) ==
    /\ pc[p] # "ret"
    /\ pc'[p] # pc[p]
    /\ (IF pc[p] = "idle" THEN loc'[p].op ELSE loc[p].op) \in ops

\* C16: no step of AddUser, DeleteUser, LoadUsers or FlushUsers changes keys or
\* kdirty; no step of CheckAndRefreshKey, CullOldKeys, LoadKeys or FlushKeys
\* changes users or udirty; and every token that passes CheckKey(name, token)
\* before a successful DeleteUser(name) passes it after.
C16_StoresIndependent ==
    [][\A p \in Procs :
         /\ OpStep(p, {"AddUser", "DeleteUser", "LoadUsers", "FlushUsers"}) =>
               keys' = keys /\ kdirty' = kdirty
         /\ OpStep(p, {"CheckAndRefreshKey", "CullOldKeys", "LoadKeys", "FlushKeys"}) =>
               users' = users /\ udirty' = udirty
         /\ (DeleteUserStep(p) /\ loc'[p].ok) =>
               \A t \in Tokens :
                  WouldCheckKey(loc'[p].uname, t) =>
                     CheckKeyResult(MapGetKey(keys', t), loc'[p].uname, now').ok]_vars

\* DeleteUser(name) has succeeded, a token of name is still in the map and a
\* CheckKey(name, token) has returned true after the deletion
C16_Witness ==
    \E p, q \in Procs :
        /\ pc[p] = "ret" /\ loc[p].op = "DeleteUser" /\ loc[p].ok
        /\ acct[loc[p].uname] = "deleted"
        /\ loc[p].uname \notin DOMAIN users
        /\ \E t \in Tokens : WouldCheckKey(loc[p].uname, t)
        /\ pc[q] = "ret" /\ loc[q].op = "CheckKey" /\ loc[q].ok


\* C17 as claimed: when CheckPasswordAndIssueKey(owner, _) inserts its record,
\* owner is in the user map.
C17_OwnerPresentAtInsert ==
    [][\A p \in Procs :
         Steps(p, "issue_insert", "ret") => loc[p].uname \in DOMAIN users]_vars

\* C17 as amended: CheckPasswordAndIssueKey(owner, pwd) goes on to the insert
\* only from its own password check, which found owner in the user map with
\* the digest of pwd; the insert stores the record under that owner, whatever
\* has become of the account since; a call whose check fails inserts nothing.
C17_OwnerPresentAtCheck ==
    [][\A p \in Procs :
         /\ (pc'[p] = "issue_insert" /\ pc[p] # "issue_insert") =>
               /\ pc[p] = "idle"
               /\ loc'[p].uname \in DOMAIN users
               /\ users[loc'[p].uname] = Hash(loc'[p].pwd)
         /\ (pc[p] = "issue_insert" /\ pc'[p] = "issue_insert") => loc'[p] = loc[p]
         /\ Steps(p, "issue_insert", "ret") =>
               /\ loc'[p].out \in DOMAIN keys'
               /\ keys'[loc'[p].out].uname = loc[p].uname
         /\ (Steps(p, "idle", "ret") /\ loc'[p].op = "CheckPasswordAndIssueKey") =>
               ~loc'[p].ok /\ keys' = keys]_vars

\* a call has passed its password check and is about to insert its record,
\* for an owner that DeleteUser has removed in between
C17_Witness ==
    \E p \in Procs :
        /\ pc[p] = "issue_insert"
        /\ kmu = NoProc
        /\ loc[p].uname \notin DOMAIN users
        /\ acct[loc[p].uname] = "deleted"


\* C18 as claimed: the token CheckPasswordAndIssueKey returns is not in the map
\* before the insert, and the insert leaves every record of the map as it was.
C18_IssueNeverOverwrites ==
    [][\A p \in Procs :
         Steps(p, "issue_insert", "ret") =>
            /\ loc'[p].out \notin DOMAIN keys
            /\ \A t \in DOMAIN keys : t \in DOMAIN keys' /\ keys'[t] = keys[t]]_vars

\* C18 as amended: the insert stores the new record under the generated token
\* whether or not the map has that token, and leaves every record under
\* another token as it was.
C18_IssueKeepsOtherTokens ==
    [][\A p \in Procs :
         Steps(p, "issue_insert", "ret") =>
            /\ DOMAIN keys' = DOMAIN keys \cup {loc'[p].out}
            /\ keys'[loc'[p].out] = [uname |-> loc[p].uname, until |-> now + key_lifetime]
            /\ \A t \in DOMAIN keys \ {loc'[p].out} : keys'[t] = keys[t]]_vars

\* two callers hold the same token, each from its own issue: the later insert
\* has replaced the record of the earlier
C18_Witness ==
    \E p, q \in Procs :
        /\ p # q
        /\ pc[p] = "ret" /\ loc[p].op = "CheckPasswordAndIssueKey" /\ loc[p].ok
        /\ pc[q] = "ret" /\ loc[q].op = "CheckPasswordAndIssueKey" /\ loc[q].ok
        /\ loc[p].out = loc[q].out
        /\ loc[p].out \in DOMAIN keys
        /\ Cardinality(DOMAIN keys) = 2


\* the maps, the dirty flags and the files
stores == <<users, udirty, keys, kdirty, hash_file, key_file>>

\* C19: the step of AddUser that returns ErrUserExists, of DeleteUser that
\* returns ErrNotAUser, of CheckPasswordAndIssueKey that returns an error
\* (ErrNotAUser or ErrBadPassword, with the empty token), and every step of a
\* CheckAndRefreshKey that returns an error (ErrBadKey) leave the maps, the
\* dirty flags and the files as they were; so does every step of
\* CheckPassword and of CheckKey.
C19_ErrorsChangeNothing ==
    [][\A p \in Procs :
         /\ (AddUserStep(p) /\ ~loc'[p].ok) =>
               loc'[p].err = ErrUserExists /\ stores' = stores
         /\ (DeleteUserStep(p) /\ ~loc'[p].ok) =>
               loc'[p].err = ErrNotAUser /\ stores' = stores
         /\ (OpStep(p, {"CheckPasswordAndIssueKey"}) /\ pc'[p] = "ret" /\ ~loc'[p].ok) =>
               /\ pc[p] = "idle"
               /\ loc'[p].err \in {ErrNotAUser, ErrBadPassword}
               /\ loc'[p].out = ""
               /\ stores' = stores
         /\ (OpStep(p, {"CheckPasswordAndIssueKey"}) /\ pc'[p] # "ret") => stores' = stores
         /\ (OpStep(p, {"CheckAndRefreshKey"}) /\ pc'[p] = "ret" /\ ~loc'[p].ok) =>
               /\ pc[p] = "refresh_now"
               /\ loc'[p].err = ErrBadKey
               /\ stores' = stores
         /\ (OpStep(p, {"CheckAndRefreshKey"}) /\ pc[p] # "refresh_update") =>
               stores' = stores
         /\ OpStep(p, {"CheckPassword", "CheckKey"}) => stores' = stores]_vars

\* with an account and a key in the maps, one caller has got ErrBadKey from
\* CheckAndRefreshKey and the other ErrUserExists from AddUser
C19_Witness ==
    \E p, q \in Procs :
        /\ pc[p] = "ret" /\ loc[p].op = "CheckAndRefreshKey" /\ loc[p].err = ErrBadKey
        /\ pc[q] = "ret" /\ loc[q].op = "AddUser" /\ loc[q].err = ErrUserExists
        /\ DOMAIN users # {}
        /\ DOMAIN keys # {}

=============================================================================
